---- MODULE Spec2Model ----
(***************************************************************************)
(* Device status and lifecycle reconciliation of the WTL-S-LCARS backend.  *)
(*                                                                         *)
(*  - backend/api/minecraft.py : detection, stop / start / restart of the  *)
(*    managed game server (specification SpecMC)                           *)
(*  - backend/api/printer.py   : the printer status cache, its merges and  *)
(*    its staleness policy (specification SpecPrinter)                     *)
(***************************************************************************)
EXTENDS Integers, Sequences, FiniteSets, TLC

(***************************************************************************)
(* Bounds of the model                                                     *)
(***************************************************************************)
\* the clock stops advancing once it would pass MaxClock (seconds)
MaxClock == 90
\* seconds that pass in one Tick
TickStep == 30
\* most detections counted in a row on an unchanged external state
MaxDetections == 2
\* most MQTT clients whose network loop runs at once
MaxClients == 2
\* most MQTT messages merged in one run of the thread-level specification
MaxMessages == 2

\* Request threads serving create_project() at the same time.
MaxThreads == 2

\* Create requests in one run.
MaxCreates == 3

\* get_printer_status(): timedelta(seconds=60)
StaleSeconds == 60

VARIABLES
    \* ---- minecraft.py --------------------------------------------------
    world,      \* external state seen by the detection probes
    pc,         \* position of the request handler that is running
    caller,     \* "restart" while stop()/start() run on behalf of restart()
    acts,       \* external stop/start actions invoked by the current request
    raised,     \* actions of the current request whose external call raised
    stage,      \* [stop |-> n, start |-> m]: last chain step entered
    lastDet,    \* probe answers and result of the latest is_server_running()
    verify,     \* detection result since the latest stop action
    stopRet,    \* what the latest stop() returned
    startRet,   \* what the latest start() returned
    resp,       \* response of the current top-level request
    errmsg,     \* text of the 'error' field of that response
    prevStop,   \* how the stop() request just before ended, while nothing
                \* outside has changed since it returned
    sameWorld,  \* detections run since the external state last changed
    \* ---- printer.py ----------------------------------------------------
    cfg,            \* PRINTER_IP / PRINTER_SERIAL / PRINTER_ACCESS_CODE
    now,            \* datetime.now(), seconds
    printer_cache,  \* _printer_cache
    mqtt_client,    \* _mqtt_client is not None
    mqtt_connected, \* _mqtt_connected
    merged,         \* the latest merge into _printer_cache: its channel,
                    \* its input, and a bit that flips at every merge
    mqtt_loops,     \* clients whose network loop was started (none is
                    \* ever stopped)
    mqtt_up,        \* of those, the clients connected to the broker now
    lastRead,       \* what the GET /status that just ran did and answered
    wr,             \* update_printer_status_from_mqtt() in progress in the
                    \* MQTT thread: the value it is writing, field by field
    rd,             \* get_status() building its response, field by field
    \* ---- system.py ----------------------------------------------------
    settings_file,  \* data/settings.json
    saved,          \* the object of the latest POST /settings, if it succeeded
    sresp,          \* the answer of the latest GET /settings since that POST
    \* ---- printer.py, control commands ---------------------------------
    ctl,            \* the latest control request: the action asked for, the
                    \* value of _mqtt_connected it found, its answer and
                    \* the command it published
    \* ---- servers.py ---------------------------------------------------
    dock,           \* which of the Nextcloud containers are running
    nc,             \* the latest Nextcloud request: what it detected, the
                    \* docker commands it issued, in order, and its answer
    \* ---- projects.py --------------------------------------------------
    project_dirs,   \* data/projects: per project ID, is there a directory
                    \* and which request wrote its project.json
    creq,           \* the create_project() request of each request thread
    made,           \* create requests begun so far
    yielded,        \* the (request, project ID) pairs answered with 201
    clobbered       \* a create request wrote into a directory that existed

mcVars == <<world, pc, caller, acts, raised, stage, lastDet, verify,
            stopRet, startRet, resp, errmsg, prevStop, sameWorld>>
prVars == <<cfg, now, printer_cache, mqtt_client, mqtt_connected, merged,
            mqtt_loops, mqtt_up, lastRead, wr, rd>>
stVars == <<settings_file, saved, sresp>>
ctVars == <<ctl>>
svVars == <<dock, nc>>
pjVars == <<project_dirs, creq, made, yielded, clobbered>>
auxVars == <<stVars, ctVars, svVars, pjVars>>
vars == <<mcVars, prVars, auxVars>>

(***************************************************************************)
(*                          backend/api/minecraft.py                       *)
(***************************************************************************)

\* The external state: is the systemd unit active, does the screen session
\* exist, is there a java process running paper.jar.
Worlds == [svc : BOOLEAN, screen : BOOLEAN, java : BOOLEAN]

\* What one detection probe answers when the external fact is b: the fact,
\* or "err" when the call raises (timeout, missing binary).
ProbeAnswers(b) == {IF b THEN "pos" ELSE "neg", "err"}

\* The answers the three probes would give in world w.
ProbeOutcomes(w) ==
    {ps \in [svc : {"pos", "neg", "err"}, screen : {"pos", "neg", "err"},
             java : {"pos", "neg", "err"}] :
        /\ ps.svc \in ProbeAnswers(w.svc)
        /\ ps.screen \in ProbeAnswers(w.screen)
        /\ ps.java \in ProbeAnswers(w.java)}

\* is_server_running(): the three probes run in order inside ONE try block;
\* the first positive answer returns True, any exception returns False.
is_server_running(ps) ==
    IF ps.svc = "err" THEN FALSE
    ELSE IF ps.svc = "pos" THEN TRUE
    ELSE IF ps.screen = "err" THEN FALSE
    ELSE IF ps.screen = "pos" THEN TRUE
    ELSE IF ps.java = "err" THEN FALSE
    ELSE ps.java = "pos"

\* get_server_pid(): the pid of the java process, None when there is none
\* or when the scan raises.
get_server_pid(w) == IF w.java THEN {"pid", "none"} ELSE {"none"}

\* What a detection with healthy probes reports in world w.
RunningIn(w) == w.svc \/ w.screen \/ w.java

\* External effect of a stop action: it can only turn things off; a
\* service-manager stop that returns 0 leaves the unit inactive.
StopEffects(w, res) ==
    {w2 \in Worlds :
        /\ w2.svc => w.svc
        /\ w2.screen => w.screen
        /\ w2.java => w.java
        /\ (res = "rc0") => ~w2.svc}

\* External effect of a start action: it can only turn things on.
StartEffects(w) ==
    {w2 \in Worlds :
        /\ w.svc => w2.svc
        /\ w.screen => w2.screen
        /\ w.java => w2.java}

NoDet == [svc |-> "none", screen |-> "none", java |-> "none", res |-> FALSE]
NoRet == [outcome |-> "none", entry |-> "none", last |-> "none",
          running |-> FALSE]

Detected_TrustsActions(ps) ==
    [svc |-> ps.svc, screen |-> ps.screen, java |-> ps.java,
     res |-> IF acts # <<>> THEN FALSE ELSE is_server_running(ps)]

\* One call of is_server_running() in the current world, recorded.
Detected(ps) == [svc |-> ps.svc, screen |-> ps.screen, java |-> ps.java,
                 res |-> is_server_running(ps)]

\* No error text.
NoText == <<>>

\* Exceptions subprocess.run raises: the timeout ran out, or the command could
\* not be executed at all.
ExcKinds == {"TimeoutExpired", "OSError"}

\* str(e) for those: TimeoutExpired quotes the command, an OSError names at
\* most the executable ('sudo'), which every step shares.
ExcText(exc, action) ==
    IF exc = "TimeoutExpired"
      THEN <<"Command ", action, " timed out">>
      ELSE <<"[Errno] ", "sudo">>

StopPcs == {"stop_detect", "stop_systemctl", "stop_rcon", "stop_rcon_verify",
            "stop_screen", "stop_screen_verify", "stop_kill"}

\* Bookkeeping of prevStop: a stop() request of its own records how it ended;
\* a request other than stop() forgets it.
TrackPrev ==
    prevStop' =
        IF caller = "none" /\ pc \in StopPcs /\ pc' = "idle"
          THEN CASE stopRet'.outcome = "stopped" -> "stopped"
                 [] stopRet'.outcome = "error" -> "failed"
                 [] OTHER -> "none"
          ELSE IF pc = "idle" /\ pc' # "stop_detect" THEN "none" ELSE prevStop

\* Positions at which the handler calls is_server_running().
DetectPcs == {"stop_detect", "start_detect", "restart_detect",
              "stop_rcon_verify", "stop_screen_verify"}

\* Bookkeeping of sameWorld: a detection counts up (to MaxDetections), a step
\* that changes the external state starts again at 0.
TrackSame ==
    sameWorld' = IF pc \in DetectPcs
                   THEN (IF sameWorld < MaxDetections THEN sameWorld + 1
                                                     ELSE sameWorld)
                   ELSE IF world' = world THEN sameWorld ELSE 0

MCInit ==
    /\ world \in Worlds
    /\ pc = "idle"
    /\ caller = "none"
    /\ acts = <<>>
    /\ raised = {}
    /\ stage = [stop |-> 0, start |-> 0]
    /\ lastDet = NoDet
    /\ verify = "none"
    /\ stopRet = NoRet
    /\ startRet = NoRet
    /\ resp = "none"
    /\ errmsg = NoText
    /\ prevStop = "none"
    /\ sameWorld = 0

\* A request arrives: the handler starts with a clean record.
Call(entry, who) ==
    /\ UNCHANGED prVars
    /\ UNCHANGED auxVars
    /\ pc = "idle"
    /\ pc' = entry
    /\ caller' = who
    /\ acts' = <<>>
    /\ raised' = {}
    /\ stage' = [stop |-> 0, start |-> 0]
    /\ lastDet' = NoDet
    /\ verify' = "none"
    /\ stopRet' = NoRet
    /\ startRet' = NoRet
    /\ resp' = "none"
    /\ UNCHANGED world
    /\ errmsg' = NoText
    /\ TrackPrev
    /\ TrackSame

CallStop == Call("stop_detect", "none")
CallStart == Call("start_detect", "none")
CallRestart == Call("restart_detect", "restart")

\* stop() returns `out`; `w2` is the external state at that moment.
StopReturns(out, last, w2) ==
    /\ stopRet' = [outcome |-> out, entry |-> stopRet.entry, last |-> last,
                   running |-> RunningIn(w2)]
    /\ IF caller = "restart"
         THEN pc' = "restart_sleep" /\ resp' = resp
         ELSE pc' = "idle" /\ resp' = out

\* start() returns `out`; restart() ignores it and answers 'restarting'.
StartReturns(out, last, w2) ==
    /\ startRet' = [outcome |-> out, entry |-> startRet.entry, last |-> last,
                    running |-> RunningIn(w2)]
    /\ pc' = "idle"
    /\ resp' = IF caller = "restart" THEN "restarting" ELSE out

\* stop() without its early return: a stopped server is stopped again.
StopDetect_NoEarlyReturn ==
    /\ UNCHANGED prVars
    /\ UNCHANGED auxVars
    /\ pc = "stop_detect"
    /\ \E ps \in ProbeOutcomes(world) :
        /\ lastDet' = Detected(ps)
        /\ pc' = "stop_systemctl"
        /\ stopRet' = [stopRet EXCEPT !.entry =
                          IF is_server_running(ps) THEN "running" ELSE "stopped"]
        /\ resp' = resp
    /\ UNCHANGED <<world, caller, acts, raised, stage, verify, startRet>>
    /\ errmsg' = errmsg
    /\ TrackPrev
    /\ TrackSame

\* stop(), line 196: if not is_server_running(): return 400
StopDetect ==
    /\ UNCHANGED prVars
    /\ UNCHANGED auxVars
    /\ pc = "stop_detect"
    /\ \E ps \in ProbeOutcomes(world) :
        /\ lastDet' = Detected(ps)
        /\ IF is_server_running(ps)
             THEN /\ pc' = "stop_systemctl"
                  /\ stopRet' = [stopRet EXCEPT !.entry = "running"]
                  /\ resp' = resp
             ELSE /\ stopRet' = [outcome |-> "NotRunning", entry |-> "stopped",
                                 last |-> "none", running |-> RunningIn(world)]
                  /\ IF caller = "restart"
                       THEN pc' = "restart_sleep" /\ resp' = resp
                       ELSE pc' = "idle" /\ resp' = "NotRunning"
    /\ UNCHANGED <<world, caller, acts, raised, stage, verify, startRet>>
    /\ errmsg' = errmsg
    /\ TrackPrev
    /\ TrackSame

\* stop(), lines 199-208: sudo systemctl stop; return code 0 answers 'stopped'
StopSystemctl ==
    /\ UNCHANGED prVars
    /\ UNCHANGED auxVars
    /\ pc = "stop_systemctl"
    /\ \E res \in {"rc0", "rcfail", "raise"} :
       \E exc \in (IF res = "raise" THEN ExcKinds ELSE {"none"}) :
       \E w2 \in StopEffects(world, res) :
        /\ world' = w2
        /\ errmsg' = IF res = "raise" THEN ExcText(exc, "systemctl_stop")
                                     ELSE errmsg
        /\ acts' = Append(acts, "systemctl_stop")
        /\ stage' = [stage EXCEPT !.stop = 1]
        /\ verify' = "none"
        /\ CASE res = "rc0" ->
                  /\ StopReturns("stopped", "systemctl_stop", w2)
                  /\ raised' = raised
             [] res = "raise" ->
                  /\ StopReturns("error", "systemctl_stop", w2)
                  /\ raised' = raised \cup {"systemctl_stop"}
             [] OTHER ->
                  /\ pc' = "stop_rcon"
                  /\ raised' = raised
                  /\ UNCHANGED <<stopRet, resp>>
    /\ UNCHANGED <<caller, lastDet, startRet>>
    /\ TrackPrev
    /\ TrackSame

\* stop(), lines 211-223: mcrcon stop when mcrcon is installed
StopRcon ==
    /\ UNCHANGED prVars
    /\ UNCHANGED auxVars
    /\ pc = "stop_rcon"
    /\ \E installed \in BOOLEAN :
        IF ~installed
          THEN /\ pc' = "stop_screen"
               /\ UNCHANGED <<world, acts, raised, stage, verify>>
          ELSE \E res \in {"done", "raise"} :
               \E w2 \in StopEffects(world, res) :
                /\ world' = w2
                /\ acts' = Append(acts, "rcon_stop")
                /\ stage' = [stage EXCEPT !.stop = 2]
                /\ verify' = "none"
                /\ IF res = "raise"
                     THEN /\ raised' = raised \cup {"rcon_stop"}
                          /\ pc' = "stop_screen"
                     ELSE /\ raised' = raised
                          /\ pc' = "stop_rcon_verify"
    /\ UNCHANGED <<caller, lastDet, stopRet, startRet, resp>>
    /\ errmsg' = errmsg
    /\ TrackPrev
    /\ TrackSame

\* The check after a stop command as a wait loop: while the server is still
\* detected the handler sleeps and checks again.
StopVerify_WaitsForStop(at, last, next) ==
    /\ UNCHANGED prVars
    /\ UNCHANGED auxVars
    /\ pc = at
    /\ \E ps \in ProbeOutcomes(world) :
        /\ lastDet' = Detected(ps)
        /\ IF is_server_running(ps)
             THEN /\ verify' = "running"
                  /\ pc' = at
                  /\ UNCHANGED <<stopRet, resp>>
             ELSE /\ verify' = "stopped"
                  /\ StopReturns("stopped", last, world)
    /\ UNCHANGED <<world, caller, acts, raised, stage, startRet>>
    /\ errmsg' = errmsg
    /\ TrackPrev
    /\ TrackSame

\* stop(), lines 219-221 and 232-234: time.sleep(3), then
\* if not is_server_running(): return 'stopped'
StopVerify(at, last, next) ==
    /\ UNCHANGED prVars
    /\ UNCHANGED auxVars
    /\ pc = at
    /\ \E ps \in ProbeOutcomes(world) :
        /\ lastDet' = Detected(ps)
        /\ IF is_server_running(ps)
             THEN /\ verify' = "running"
                  /\ pc' = next
                  /\ UNCHANGED <<stopRet, resp>>
             ELSE /\ verify' = "stopped"
                  /\ StopReturns("stopped", last, world)
    /\ UNCHANGED <<world, caller, acts, raised, stage, startRet>>
    /\ errmsg' = errmsg
    /\ TrackPrev
    /\ TrackSame

StopRconVerify == StopVerify("stop_rcon_verify", "rcon_stop", "stop_screen")

\* stop(), lines 226-236: screen -X stuff 'stop\n'
StopScreen ==
    /\ UNCHANGED prVars
    /\ UNCHANGED auxVars
    /\ pc = "stop_screen"
    /\ \E res \in {"done", "raise"} :
       \E w2 \in StopEffects(world, res) :
        /\ world' = w2
        /\ acts' = Append(acts, "screen_stop")
        /\ stage' = [stage EXCEPT !.stop = 3]
        /\ verify' = "none"
        /\ IF res = "raise"
             THEN /\ raised' = raised \cup {"screen_stop"}
                  /\ pc' = "stop_kill"
             ELSE /\ raised' = raised
                  /\ pc' = "stop_screen_verify"
    /\ UNCHANGED <<caller, lastDet, stopRet, startRet, resp>>
    /\ errmsg' = errmsg
    /\ TrackPrev
    /\ TrackSame

StopScreenVerify == StopVerify("stop_screen_verify", "screen_stop", "stop_kill")

\* stop(), lines 239-251: terminate / kill the process when a pid is found,
\* then return 'stopped' whatever happened.
\*   "nopid"   get_server_pid() returned None
\*   "gone"    psutil.Process(pid) raised, proc.kill() raised on the unbound name
\*   "term"    terminate() and wait() returned
\*   "kill"    terminate() or wait() raised, kill() returned
\*   "denied"  terminate() or wait() raised, kill() raised
StopKill ==
    /\ UNCHANGED prVars
    /\ UNCHANGED auxVars
    /\ pc = "stop_kill"
    /\ \E pid \in get_server_pid(world) :
       \E how \in (IF pid = "none" THEN {"nopid"}
                   ELSE {"gone", "term", "kill", "denied"}) :
       \E w2 \in (IF how = "nopid" THEN {world} ELSE StopEffects(world, how)) :
        /\ world' = w2
        /\ stage' = [stage EXCEPT !.stop = 4]
        /\ acts' = CASE how \in {"nopid", "gone"} -> acts
                     [] how = "term" -> Append(acts, "terminate")
                     [] OTHER -> acts \o <<"terminate", "kill">>
        /\ raised' = CASE how \in {"nopid", "term"} -> raised
                       [] how = "gone" -> raised \cup {"terminate"}
                       [] how = "kill" -> raised \cup {"terminate"}
                       [] OTHER -> raised \cup {"terminate", "kill"}
        /\ verify' = IF how \in {"nopid", "gone"} THEN verify ELSE "none"
        /\ StopReturns("stopped", "kill", w2)
    /\ UNCHANGED <<caller, lastDet, startRet>>
    /\ errmsg' = errmsg
    /\ TrackPrev
    /\ TrackSame

\* start() without its early return: a running server is started again.
StartDetect_NoEarlyReturn ==
    /\ UNCHANGED prVars
    /\ UNCHANGED auxVars
    /\ pc = "start_detect"
    /\ \E ps \in ProbeOutcomes(world) :
        /\ lastDet' = Detected(ps)
        /\ pc' = "start_systemctl"
        /\ startRet' = [startRet EXCEPT !.entry =
                           IF is_server_running(ps) THEN "running" ELSE "stopped"]
        /\ resp' = resp
    /\ UNCHANGED <<world, caller, acts, raised, stage, verify, stopRet>>
    /\ errmsg' = errmsg
    /\ TrackPrev
    /\ TrackSame

\* start(), line 156: if is_server_running(): return 400
StartDetect ==
    /\ UNCHANGED prVars
    /\ UNCHANGED auxVars
    /\ pc = "start_detect"
    /\ \E ps \in ProbeOutcomes(world) :
        /\ lastDet' = Detected(ps)
        /\ IF is_server_running(ps)
             THEN /\ startRet' = [outcome |-> "AlreadyRunning",
                                  entry |-> "running", last |-> "none",
                                  running |-> RunningIn(world)]
                  /\ pc' = "idle"
                  /\ resp' = IF caller = "restart" THEN "restarting"
                             ELSE "AlreadyRunning"
             ELSE /\ startRet' = [startRet EXCEPT !.entry = "stopped"]
                  /\ pc' = "start_systemctl"
                  /\ resp' = resp
    /\ UNCHANGED <<world, caller, acts, raised, stage, verify, stopRet>>
    /\ errmsg' = errmsg
    /\ TrackPrev
    /\ TrackSame

\* start(), lines 160-168: sudo systemctl start
StartSystemctl ==
    /\ UNCHANGED prVars
    /\ UNCHANGED auxVars
    /\ pc = "start_systemctl"
    /\ \E res \in {"rc0", "rcfail", "raise"} :
       \E exc \in (IF res = "raise" THEN ExcKinds ELSE {"none"}) :
       \E w2 \in StartEffects(world) :
        /\ world' = w2
        /\ errmsg' = IF res = "raise" THEN ExcText(exc, "systemctl_start")
                                     ELSE errmsg
        /\ acts' = Append(acts, "systemctl_start")
        /\ stage' = [stage EXCEPT !.start = 1]
        /\ CASE res = "rc0" ->
                  /\ StartReturns("starting", "systemctl_start", w2)
                  /\ raised' = raised
             [] res = "raise" ->
                  /\ StartReturns("error", "systemctl_start", w2)
                  /\ raised' = raised \cup {"systemctl_start"}
             [] OTHER ->
                  /\ pc' = "start_screen"
                  /\ raised' = raised
                  /\ UNCHANGED <<startRet, resp>>
    /\ UNCHANGED <<caller, lastDet, verify, stopRet>>
    /\ TrackPrev
    /\ TrackSame

\* start(), lines 171-187: the jar must exist, then screen -dmS ... java
StartScreen ==
    /\ UNCHANGED prVars
    /\ UNCHANGED auxVars
    /\ pc = "start_screen"
    /\ \E jar \in BOOLEAN :
        IF ~jar
          THEN /\ StartReturns("jar_not_found", "systemctl_start", world)
               /\ errmsg' = <<"Server jar not found: ", "jar_path">>
               /\ UNCHANGED <<world, acts, raised, stage>>
          ELSE \E res \in {"rc0", "rcfail", "raise"} :
               \E exc \in (IF res = "raise" THEN ExcKinds ELSE {"none"}) :
               \E w2 \in StartEffects(world) :
                /\ world' = w2
                /\ errmsg' = CASE res = "raise" -> ExcText(exc, "screen_start")
                               [] res = "rcfail" ->
                                    <<"Failed to start server: ", "stderr">>
                               [] OTHER -> errmsg
                /\ acts' = Append(acts, "screen_start")
                /\ stage' = [stage EXCEPT !.start = 2]
                /\ CASE res = "rc0" ->
                          /\ StartReturns("starting", "screen_start", w2)
                          /\ raised' = raised
                     [] res = "raise" ->
                          /\ StartReturns("error", "screen_start", w2)
                          /\ raised' = raised \cup {"screen_start"}
                     [] OTHER ->
                          /\ StartReturns("failed", "screen_start", w2)
                          /\ raised' = raised
    /\ UNCHANGED <<caller, lastDet, verify, stopRet>>
    /\ TrackPrev
    /\ TrackSame

\* restart() without its stop phase: it goes straight to start().
RestartDetect_SkipsStop ==
    /\ UNCHANGED prVars
    /\ UNCHANGED auxVars
    /\ pc = "restart_detect"
    /\ \E ps \in ProbeOutcomes(world) :
        /\ lastDet' = Detected(ps)
        /\ pc' = "start_detect"
    /\ UNCHANGED <<world, caller, acts, raised, stage, verify, stopRet,
                   startRet, resp>>
    /\ errmsg' = errmsg
    /\ TrackPrev
    /\ TrackSame

\* restart(), line 260: if is_server_running(): stop(); time.sleep(2)
RestartDetect ==
    /\ UNCHANGED prVars
    /\ UNCHANGED auxVars
    /\ pc = "restart_detect"
    /\ \E ps \in ProbeOutcomes(world) :
        /\ lastDet' = Detected(ps)
        /\ pc' = IF is_server_running(ps) THEN "stop_detect" ELSE "start_detect"
    /\ UNCHANGED <<world, caller, acts, raised, stage, verify, stopRet,
                   startRet, resp>>
    /\ errmsg' = errmsg
    /\ TrackPrev
    /\ TrackSame

\* restart(), lines 261-266: the result of stop() is dropped, then start()
RestartSleep ==
    /\ UNCHANGED prVars
    /\ UNCHANGED auxVars
    /\ pc = "restart_sleep"
    /\ pc' = "start_detect"
    /\ UNCHANGED <<world, caller, acts, raised, stage, lastDet, verify,
                   stopRet, startRet, resp>>
    /\ errmsg' = errmsg
    /\ TrackPrev
    /\ TrackSame

\* The external state changes on its own (crash, operator, boot).
EnvChange ==
    /\ UNCHANGED prVars
    /\ UNCHANGED auxVars
    /\ \E w2 \in Worlds : w2 # world /\ world' = w2
    /\ UNCHANGED <<pc, caller, acts, raised, stage, lastDet, verify, stopRet,
                   startRet, resp>>
    /\ errmsg' = errmsg
    /\ prevStop' = "none"
    /\ sameWorld' = 0

MCNext ==
    \/ CallStop \/ CallStart \/ CallRestart
    \/ StopDetect \/ StopSystemctl \/ StopRcon \/ StopRconVerify
    \/ StopScreen \/ StopScreenVerify \/ StopKill
    \/ StartDetect \/ StartSystemctl \/ StartScreen
    \/ RestartDetect \/ RestartSleep
    \/ EnvChange

(***************************************************************************)
(*                          backend/api/printer.py                         *)
(***************************************************************************)

\* 'last_update': None
NoUpdate == -1

\* The data fields of _printer_cache (all but last_update, connected, mode).
DataFields == {"status", "jobName", "progress", "eta", "nozzleTemp",
               "bedTemp", "filament", "alert"}

\* _printer_cache as the module creates it.
InitialCache ==
    [status |-> "IDLE", jobName |-> "None", progress |-> 0,
     eta |-> <<"None">>, nozzleTemp |-> 0, bedTemp |-> 0,
     filament |-> "None", alert |-> "None", last_update |-> NoUpdate,
     connected |-> FALSE, mode |-> "unknown"]

\* dict.get(k, default)
Get(d, k, default) == IF k \in DOMAIN d THEN d[k] ELSE default

\* f"{n:02d}": at least two decimal digits
Digit(n) == <<"0", "1", "2", "3", "4", "5", "6", "7", "8", "9">>[n + 1]
Fmt02d(n) ==
    IF n < 10 THEN <<"0", Digit(n)>>
    ELSE IF n < 100 THEN <<Digit(n \div 10), Digit(n % 10)>>
    ELSE <<Digit(n \div 100), Digit((n \div 10) % 10), Digit(n % 10)>>

\* update_printer_status_from_mqtt, lines 90-97
EtaOf(remaining) ==
    IF remaining > 0
      THEN Fmt02d(remaining \div 60) \o <<":">> \o Fmt02d(remaining % 60)
      ELSE <<"None">>

\* Messages the push channel delivers (decoded JSON objects).
MqttPayloads ==
    { [print |-> [mc_print_stage |-> "RUNNING", mc_percent |-> 50,
                  subtask_name |-> "job", mc_remaining_time |-> 90]],
      [print |-> [mc_percent |-> 50]],
      [temperature |-> [nozzle_temper |-> 200, bed_temper |-> 60]],
      [temperature |-> [bed_temper |-> 60]],
      [ams |-> [tray_now |-> "1"]],
      [info |-> [command |-> "get_version"]] }

\* JSON objects an HTTP status endpoint answers with status 200.
HttpPayloads ==
    { [status |-> "RUNNING", progress |-> 50, job_name |-> "job",
       nozzle_temp |-> 200, bed_temp |-> 60],
      [status |-> "RUNNING"],
      [nozzle_temp |-> 200] }

\* JSON bodies of POST /status; "null" is a body without a JSON object.
ManualPayloads ==
    { [status |-> "RUNNING", jobName |-> "job", progress |-> 50,
       eta |-> <<"0", "1", ":", "3", "0">>],
      [nozzleTemp |-> 200, filament |-> "1"],
      [bedTemp |-> 60],
      [note |-> "x"] }

\* update_printer_status_from_mqtt(data) at time t
update_printer_status_from_mqtt(c, data, t) ==
    LET c1 == IF "print" \in DOMAIN data
                THEN [c EXCEPT
                        !.status = Get(data.print, "mc_print_stage", "IDLE"),
                        !.progress = Get(data.print, "mc_percent", 0),
                        !.jobName = Get(data.print, "subtask_name", "None"),
                        !.eta = EtaOf(Get(data.print, "mc_remaining_time", 0))]
                ELSE c
        c2 == IF "temperature" \in DOMAIN data
                THEN [c1 EXCEPT
                        !.nozzleTemp = Get(data.temperature, "nozzle_temper", 0),
                        !.bedTemp = Get(data.temperature, "bed_temper", 0)]
                ELSE c1
        c3 == IF "ams" \in DOMAIN data
                THEN [c2 EXCEPT !.filament = Get(data.ams, "tray_now", "--")]
                ELSE c2
    IN  [c3 EXCEPT !.last_update = t, !.connected = TRUE]

\* update_printer_status_from_http(data) at time t
update_printer_status_from_http(c, data, t) ==
    [c EXCEPT !.status = Get(data, "status", "IDLE"),
              !.progress = Get(data, "progress", 0),
              !.jobName = Get(data, "job_name", "None"),
              !.nozzleTemp = Get(data, "nozzle_temp", 0),
              !.bedTemp = Get(data, "bed_temp", 0),
              !.last_update = t,
              !.connected = TRUE]

\* update_status(), lines 298-315: the fields present in the body
ManualFields == {"status", "jobName", "progress", "eta", "nozzleTemp",
                 "bedTemp", "filament"}
update_status(c, data, t) ==
    [f \in DOMAIN c |->
        CASE f \in ManualFields /\ f \in DOMAIN data -> data[f]
          [] f = "last_update" -> t
          [] f = "connected" -> TRUE
          [] f = "mode" -> "manual"
          [] OTHER -> c[f]]

StaleChecked_Never(c, t) == c

StaleChecked_Always(c, t) == [c EXCEPT !.connected = FALSE]

\* get_printer_status(), lines 209-212
IsStale(c, t) == c.last_update # NoUpdate /\ t - c.last_update > StaleSeconds
StaleChecked(c, t) == IF IsStale(c, t) THEN [c EXCEPT !.connected = FALSE] ELSE c

\* No merge has happened yet.
NoMerge == [src |-> "none", data |-> <<>>, seq |-> 0]

\* A merge from channel src with input data follows the merge m.
Merge(m, src, data) == [src |-> src, data |-> data, seq |-> 1 - m.seq]

\* No GET /status has just run.
NoRead == [code |-> 0, tried |-> {}, ok |-> {}, created |-> FALSE,
           push |-> FALSE]

\* No merge is in progress in the MQTT thread.
NoWrite == [busy |-> FALSE, i |-> 0, target |-> <<>>, pre |-> <<>>, n |-> 0]

\* No response is being built.
NoResponse == [busy |-> FALSE, out |-> <<>>, done |-> FALSE, snaps |-> {}]

PrInit ==
    /\ cfg \in {"none", "cloud", "lan"}
    /\ now = 0
    /\ printer_cache = InitialCache
    /\ mqtt_client = FALSE
    /\ mqtt_connected = FALSE
    /\ merged = NoMerge
    /\ mqtt_loops = 0
    /\ mqtt_up = 0
    /\ lastRead = NoRead
    /\ wr = NoWrite
    /\ rd = NoResponse

\* Time passes.
Tick ==
    /\ now + TickStep <= MaxClock
    /\ now' = now + TickStep
    /\ lastRead' = NoRead
    /\ UNCHANGED <<cfg, printer_cache, mqtt_client, mqtt_connected, merged,
                   mqtt_loops, mqtt_up>>
    /\ UNCHANGED <<wr, rd>>
    /\ UNCHANGED mcVars
    /\ UNCHANGED auxVars

\* on_mqtt_message(): a message arrives at a connected (hence subscribed)
\* client
on_mqtt_message ==
    /\ mqtt_up > 0
    /\ \E data \in MqttPayloads :
        /\ printer_cache' =
             update_printer_status_from_mqtt(printer_cache, data, now)
        /\ merged' = Merge(merged, "push", data)
    /\ lastRead' = NoRead
    /\ UNCHANGED <<cfg, now, mqtt_client, mqtt_connected, mqtt_loops, mqtt_up>>
    /\ UNCHANGED <<wr, rd>>
    /\ UNCHANGED mcVars
    /\ UNCHANGED auxVars

\* on_mqtt_connect(rc): the network loop of a client that is not connected
\* gets the broker's answer to a (re)connect
on_mqtt_connect ==
    /\ mqtt_up < mqtt_loops
    /\ \E rc \in {0, 5} :
        IF rc = 0
          THEN /\ mqtt_connected' = TRUE
               /\ mqtt_up' = mqtt_up + 1
               /\ printer_cache' = [printer_cache EXCEPT !.mode = "lan"]
          ELSE /\ mqtt_connected' = FALSE
               /\ mqtt_up' = mqtt_up
               /\ printer_cache' = printer_cache
    /\ lastRead' = NoRead
    /\ UNCHANGED <<cfg, now, mqtt_client, merged, mqtt_loops>>
    /\ UNCHANGED <<wr, rd>>
    /\ UNCHANGED mcVars
    /\ UNCHANGED auxVars

\* A disconnect callback that also marks the cached status as not connected.
on_mqtt_disconnect_MarksOffline ==
    /\ mqtt_up > 0
    /\ mqtt_connected' = FALSE
    /\ mqtt_up' = mqtt_up - 1
    /\ lastRead' = NoRead
    /\ printer_cache' = [printer_cache EXCEPT !.connected = FALSE]
    /\ UNCHANGED <<cfg, now, mqtt_client, merged, mqtt_loops>>
    /\ UNCHANGED <<wr, rd>>
    /\ UNCHANGED mcVars
    /\ UNCHANGED auxVars

\* on_mqtt_disconnect(): a connected client loses its connection
on_mqtt_disconnect ==
    /\ mqtt_up > 0
    /\ mqtt_connected' = FALSE
    /\ mqtt_up' = mqtt_up - 1
    /\ lastRead' = NoRead
    /\ UNCHANGED <<cfg, now, printer_cache, mqtt_client, merged, mqtt_loops>>
    /\ UNCHANGED <<wr, rd>>
    /\ UNCHANGED mcVars
    /\ UNCHANGED auxVars

\* init_mqtt_client() when _mqtt_connected is False: what it leaves behind.
\*   "skip"    no serial / access code: nothing is created
\*   "raise"   connect() raised: the new client is kept, not connected
\*   "rc0"     on_mqtt_connect(rc = 0) ran during time.sleep(2)
\*   "refused" on_mqtt_connect(rc # 0) ran, or no answer within 2 s
InitOutcomes(c) == IF c = "lan" THEN {"raise", "rc0", "refused"} ELSE {"skip"}

\* Outcomes of init_mqtt_client() that start a network loop (loop_start()).
StartsLoop(mq) == mq \in {"rc0", "refused"}

TryMqtt_Always(c, client, conn) == c # "none"

\* get_printer_status() lines 214-219 and init_mqtt_client() line 177:
\* whether the read goes on to set up a client
TryMqtt(c, client, conn) == c # "none" /\ ~conn /\ ~(client /\ conn)

Polls_Always(c, conn) == c # "none"

\* The read without its return for an empty PRINTER_IP.
Polls_WithoutAddress(c, conn) == ~conn

\* get_printer_status() lines 214-215 and 221-226: whether the read goes on
\* to the reachability check and the HTTP query
Polls(c, conn) == c # "none" /\ ~conn

init_escapes_uncaught(mq) == mq = "raise"

\* init_mqtt_client() lines 180-197: whether outcome mq leaves the function as
\* an exception; "except Exception" answers False instead
init_escapes(mq) == FALSE

\* try_http_status(): ways an endpoint gives no usable answer
\* (requests raises, status is not 200, the body is not a JSON object)
HttpFailures == {[fail |-> "timeout"], [fail |-> "status"],
                 [fail |-> "malformed"]}

\* GET /status: get_status() -> get_printer_status(); the response is built
\* from the cache the handler leaves.
get_status ==
    /\ \E mq \in InitOutcomes(cfg) :
       \E reach \in BOOLEAN :
       \E http \in (IF reach THEN HttpFailures \cup HttpPayloads
                              ELSE {[fail |-> "unreachable"]}) :
        LET c0 == StaleChecked(printer_cache, now)
            try_mqtt == TryMqtt(cfg, mqtt_client, mqtt_connected)
            create == try_mqtt /\ mq # "skip"
            loop == create /\ StartsLoop(mq)
            error == create /\ init_escapes(mq)
            client1 == IF create THEN TRUE ELSE mqtt_client
            conn1 == IF try_mqtt THEN mq = "rc0" ELSE mqtt_connected
            c1 == IF try_mqtt /\ mq = "rc0" THEN [c0 EXCEPT !.mode = "lan"] ELSE c0
            probe == Polls(cfg, conn1) /\ ~error
            poll == probe /\ reach /\ "fail" \notin DOMAIN http
        IN  /\ loop => mqtt_loops < MaxClients
            /\ mqtt_client' = client1
            /\ mqtt_connected' = conn1
            /\ mqtt_loops' = IF loop THEN mqtt_loops + 1 ELSE mqtt_loops
            /\ mqtt_up' = IF loop /\ mq = "rc0" THEN mqtt_up + 1 ELSE mqtt_up
            /\ printer_cache' =
                 IF poll
                   THEN [update_printer_status_from_http(c1, http, now)
                            EXCEPT !.mode = "cloud"]
                   ELSE c1
            /\ merged' = IF poll THEN Merge(merged, "poll", http) ELSE merged
            /\ lastRead' =
                 [code |-> IF error THEN 500 ELSE 200,
                  tried |-> (IF create THEN {"push"} ELSE {})
                            \cup (IF probe THEN {"reach"} ELSE {})
                            \cup (IF probe /\ reach THEN {"http"} ELSE {}),
                  ok |-> (IF create /\ mq = "rc0" THEN {"push"} ELSE {})
                         \cup (IF probe /\ reach THEN {"reach"} ELSE {})
                         \cup (IF poll THEN {"http"} ELSE {}),
                  created |-> create,
                  push |-> mqtt_connected]
    /\ UNCHANGED <<cfg, now>>
    /\ UNCHANGED <<wr, rd>>
    /\ UNCHANGED mcVars
    /\ UNCHANGED auxVars

\* POST /status: update_status()
post_status ==
    /\ \E data \in ManualPayloads :
        /\ printer_cache' = update_status(printer_cache, data, now)
        /\ merged' = Merge(merged, "manual", data)
    /\ lastRead' = NoRead
    /\ UNCHANGED <<cfg, now, mqtt_client, mqtt_connected, mqtt_loops, mqtt_up>>
    /\ UNCHANGED <<wr, rd>>
    /\ UNCHANGED mcVars
    /\ UNCHANGED auxVars

PrNext ==
    \/ Tick
    \/ on_mqtt_message
    \/ on_mqtt_connect
    \/ on_mqtt_disconnect
    \/ get_status
    \/ post_status

(***************************************************************************)
(* The same module at the grain of single dictionary accesses: the MQTT    *)
(* network loop runs on_mqtt_message() in its own thread while a request   *)
(* thread runs get_status(); nothing in printer.py takes a lock.           *)
(***************************************************************************)

\* update_printer_status_from_mqtt(): the order of its writes
WriteOrder == <<"status", "progress", "jobName", "eta", "nozzleTemp",
                "bedTemp", "filament", "last_update", "connected">>

\* get_status(): the order in which jsonify's argument reads the cache
ReadOrder == <<"status", "jobName", "progress", "eta", "nozzleTemp",
               "bedTemp", "filament", "alert", "connected", "mode">>

\* The fields of a response, taken from a cache value.
Response(c) == [i \in 1..Len(ReadOrder) |-> c[ReadOrder[i]]]

\* on_mqtt_message(): a message arrives; update_printer_status_from_mqtt()
\* is about to write its fields
on_mqtt_message_begin ==
    /\ mqtt_up > 0
    /\ ~wr.busy
    /\ wr.n < MaxMessages
    /\ \E data \in MqttPayloads :
        LET target == update_printer_status_from_mqtt(printer_cache, data, now)
        IN  /\ wr' = [busy |-> TRUE, i |-> 0, target |-> target,
                      pre |-> printer_cache, n |-> wr.n + 1]
            /\ rd' = IF rd.busy
                       THEN [rd EXCEPT !.snaps = @ \cup {Response(target)}]
                       ELSE rd
            /\ merged' = Merge(merged, "push", data)
    /\ UNCHANGED <<cfg, now, printer_cache, mqtt_client, mqtt_connected,
                   mqtt_loops, mqtt_up, lastRead>>
    /\ UNCHANGED mcVars
    /\ UNCHANGED auxVars

\* update_printer_status_from_mqtt(): one assignment to _printer_cache
update_printer_status_write ==
    /\ wr.busy
    /\ LET f == WriteOrder[wr.i + 1]
       IN  /\ printer_cache' = [printer_cache EXCEPT ![f] = wr.target[f]]
           /\ wr' = IF wr.i + 1 = Len(WriteOrder)
                      THEN [NoWrite EXCEPT !.n = wr.n]
                      ELSE [wr EXCEPT !.i = @ + 1]
    /\ UNCHANGED <<cfg, now, mqtt_client, mqtt_connected, merged, mqtt_loops,
                   mqtt_up, lastRead, rd>>
    /\ UNCHANGED mcVars
    /\ UNCHANGED auxVars

\* get_status(): get_printer_status() has returned _printer_cache itself
\* (push connected, data fresh); the response is about to be built
get_status_begin ==
    /\ mqtt_connected
    /\ ~rd.busy
    /\ rd' = [busy |-> TRUE, out |-> <<>>, done |-> FALSE,
              snaps |-> IF wr.busy
                          THEN {Response(wr.pre), Response(wr.target)}
                          ELSE {Response(printer_cache)}]
    /\ UNCHANGED <<cfg, now, printer_cache, mqtt_client, mqtt_connected,
                   merged, mqtt_loops, mqtt_up, lastRead, wr>>
    /\ UNCHANGED mcVars
    /\ UNCHANGED auxVars

\* get_status(): one item of the dictionary handed to jsonify
jsonify_field ==
    /\ rd.busy
    /\ Len(rd.out) < Len(ReadOrder)
    /\ rd' = [rd EXCEPT !.out = Append(@, printer_cache[ReadOrder[Len(@) + 1]])]
    /\ UNCHANGED <<cfg, now, printer_cache, mqtt_client, mqtt_connected,
                   merged, mqtt_loops, mqtt_up, lastRead, wr>>
    /\ UNCHANGED mcVars
    /\ UNCHANGED auxVars

\* get_status(): the response is sent
get_status_return ==
    /\ rd.busy
    /\ Len(rd.out) = Len(ReadOrder)
    /\ rd' = [rd EXCEPT !.busy = FALSE, !.done = TRUE]
    /\ UNCHANGED <<cfg, now, printer_cache, mqtt_client, mqtt_connected,
                   merged, mqtt_loops, mqtt_up, lastRead, wr>>
    /\ UNCHANGED mcVars
    /\ UNCHANGED auxVars

ThreadsNext ==
    \/ on_mqtt_message_begin
    \/ update_printer_status_write
    \/ get_status_begin
    \/ jsonify_field
    \/ get_status_return

\* The push connection is up and nothing has been merged yet.
ThreadsInit ==
    /\ cfg = "lan"
    /\ now = 0
    /\ printer_cache = [InitialCache EXCEPT !.mode = "lan"]
    /\ mqtt_client = TRUE
    /\ mqtt_connected = TRUE
    /\ merged = NoMerge
    /\ mqtt_loops = 1
    /\ mqtt_up = 1
    /\ lastRead = NoRead
    /\ wr = NoWrite
    /\ rd = NoResponse

(***************************************************************************)
(*                  backend/api/system.py: /settings                       *)
(***************************************************************************)

SettingKeys == <<"volume", "standbyTimeout", "standbyConfig">>
SettingValues == {10, 75, 100}

\* The objects a client posts: any of the keys, each with a value.
SettingsObjects ==
    UNION {[K -> SettingValues] :
             K \in SUBSET {SettingKeys[i] : i \in 1..Len(SettingKeys)}}

\* json.dump(data, f): the members of the object as text, one after another.
json_dump(data) ==
    LET ks == SelectSeq(SettingKeys, LAMBDA k : k \in DOMAIN data)
    IN  [i \in 1..Len(ks) |-> <<ks[i], data[ks[i]]>>]

\* json.load(f): the object the text denotes.
json_load(text) ==
    [k \in {text[i][1] : i \in 1..Len(text)} |->
        LET i == CHOOSE j \in 1..Len(text) : text[j][1] = k IN text[i][2]]

\* settings.json does not exist.
NoFile == [state |-> "absent", text |-> <<>>]

\* No POST has succeeded since the file was last touched.
NoSave == [ok |-> FALSE, data |-> <<>>]

\* No GET has been answered since the latest POST.
NoSettings == [code |-> 0, body |-> <<>>]

Written_Merged(file, data) ==
    [state |-> "written",
     text |-> json_dump(
        [k \in DOMAIN data \cup DOMAIN json_load(file.text) |->
            IF k \in DOMAIN data THEN data[k] ELSE json_load(file.text)[k]])]

\* save_settings(), lines 299-300: open(SETTINGS_FILE, 'w'), json.dump
Written(file, data) == [state |-> "written", text |-> json_dump(data)]

\* POST /settings: save_settings().
\*   "saved"  the file is rewritten and the answer is {'status': 'saved'}
\*   "nodir"  makedirs or open raised: 500, the file is as it was
\*   "cut"    the write raised after open(..., 'w') truncated the file: 500
save_settings ==
    /\ \E data \in SettingsObjects :
       \E how \in {"saved", "nodir", "cut"} :
        /\ settings_file' =
             CASE how = "saved" -> Written(settings_file, data)
               [] how = "nodir" -> settings_file
               [] OTHER -> [state |-> "partial", text |-> <<>>]
        /\ saved' = IF how = "saved" THEN [ok |-> TRUE, data |-> data]
                                     ELSE NoSave
    /\ sresp' = NoSettings
    /\ UNCHANGED mcVars
    /\ UNCHANGED prVars
    /\ UNCHANGED ctVars
    /\ UNCHANGED svVars
    /\ UNCHANGED pjVars

\* GET /settings: get_settings(); {} when the file does not exist, 500 when
\* json.load raises.
get_settings ==
    /\ sresp' =
         CASE settings_file.state = "absent" -> [code |-> 200, body |-> <<>>]
           [] settings_file.state = "partial" -> [code |-> 500, body |-> <<>>]
           [] OTHER -> [code |-> 200, body |-> json_load(settings_file.text)]
    /\ UNCHANGED <<settings_file, saved>>
    /\ UNCHANGED mcVars
    /\ UNCHANGED prVars
    /\ UNCHANGED ctVars
    /\ UNCHANGED svVars
    /\ UNCHANGED pjVars

SettingsNext ==
    \/ save_settings
    \/ get_settings

SettingsInit ==
    /\ settings_file = NoFile
    /\ saved = NoSave
    /\ sresp = NoSettings

(***************************************************************************)
(*                   backend/api/printer.py: control commands              *)
(***************************************************************************)

\* The keys of command_map in control_printer().
ControlActions == {"pause", "resume", "stop"}

\* Action names control_printer() may be called with: the three above and
\* one that command_map does not hold.
ActionNames == ControlActions \cup {"home"}

\* Nothing published; command_map.get(action) is None.
NoCommand == "none"

\* command_map without its key check: every name is its own command.
command_map_AnyName(action) == action

\* control_printer(), lines 260-266: command_map.get(action)
command_map(action) == IF action \in ControlActions THEN action ELSE NoCommand

\* send_mqtt_command(), lines 231-250: the command handed to
\* _mqtt_client.publish, or NoCommand when the function returns False
\* (not connected, no client, or an exception before the publish went out).
send_mqtt_command(command, conn, client, raises) ==
    IF ~conn \/ ~client THEN NoCommand
    ELSE IF raises THEN NoCommand
    ELSE command

\* control_printer(), lines 254-270.
control_printer(action, conn, client, raises) ==
    IF ~conn THEN NoCommand
    ELSE IF command_map(action) = NoCommand THEN NoCommand
    ELSE send_mqtt_command(command_map(action), conn, client, raises)

\* No control request yet.
NoControl == [action |-> "none", route |-> FALSE, conn |-> FALSE,
              code |-> 0, pub |-> NoCommand]

\* POST /pause, /resume, /stop (lines 321-373): 400 while _mqtt_connected is
\* false, 200 when control_printer() returned True, 500 otherwise.
control_route(action) ==
    /\ \E raises \in BOOLEAN :
        LET pub == control_printer(action, mqtt_connected, mqtt_client, raises)
        IN  ctl' = [action |-> action, route |-> TRUE,
                    conn |-> mqtt_connected,
                    code |-> IF ~mqtt_connected THEN 400
                             ELSE IF pub # NoCommand THEN 200 ELSE 500,
                    pub |-> pub]
    /\ UNCHANGED mcVars
    /\ UNCHANGED prVars
    /\ UNCHANGED stVars
    /\ UNCHANGED svVars
    /\ UNCHANGED pjVars

pause == control_route("pause")

resume == control_route("resume")

stop == control_route("stop")

\* control_printer(action) called with any action name.
control_printer_call ==
    /\ \E action \in ActionNames :
       \E raises \in BOOLEAN :
        ctl' = [action |-> action, route |-> FALSE, conn |-> mqtt_connected,
                code |-> 0,
                pub |-> control_printer(action, mqtt_connected, mqtt_client,
                                        raises)]
    /\ UNCHANGED mcVars
    /\ UNCHANGED prVars
    /\ UNCHANGED stVars
    /\ UNCHANGED svVars
    /\ UNCHANGED pjVars

\* Control requests, and the steps that make and break the MQTT connection.
ControlNext ==
    \/ get_status
    \/ on_mqtt_connect
    \/ on_mqtt_disconnect
    \/ pause
    \/ resume
    \/ stop
    \/ control_printer_call

ControlInit == ctl = NoControl

(***************************************************************************)
(*                          backend/api/servers.py                         *)
(***************************************************************************)

NEXTCLOUD_CONTAINER == "nextcloud-app"
NEXTCLOUD_DB_CONTAINER == "nextcloud-db"

\* is_container_running(), lines 17-28, of a container whose state is b:
\* the state, or False when docker ps raises.
ContainerSeen(b) == {b, FALSE}

\* How a docker start/stop ends: return code 0, another return code, or the
\* call raises (timeout=10).
DockerResults == {"rc0", "rcfail", "raise"}

\* The states a container may be in after `docker <verb>` ended with res.
DockerEffect(b, verb, res) ==
    CASE res = "rc0" -> {verb # "stop"}
      [] verb = "restart" -> BOOLEAN
      [] res = "rcfail" -> {b}
      [] OTHER -> {b, verb # "stop"}

\* nextcloud_start() going on to the application whatever the database
\* start returned.
StartsApp_IgnoresDbResult(appSeen, dbSeen, dbRes) ==
    ~appSeen /\ dbRes # "raise"

\* nextcloud_start(), lines 212-225: does the handler reach the docker start
\* of the application?  dbRes is "none" when the database start is not run.
StartsApp(appSeen, dbSeen, dbRes) ==
    ~appSeen /\ (dbSeen \/ dbRes = "rc0")

\* No Nextcloud request yet.
NoRequest == [op |-> "none", cmds |-> <<>>, appSeen |-> FALSE,
              dbSeen |-> FALSE, dbRes |-> "none", code |-> 0,
              dbBefore |-> FALSE, dbAfter |-> FALSE]

\* POST /nextcloud/start, lines 208-239.
nextcloud_start ==
    /\ \E appSeen \in ContainerSeen(dock.app) :
       \E dbSeen \in (IF appSeen THEN {FALSE} ELSE ContainerSeen(dock.db)) :
       \E dbRes \in (IF appSeen \/ dbSeen THEN {"none"} ELSE DockerResults) :
       \E appRes \in (IF StartsApp(appSeen, dbSeen, dbRes)
                        THEN DockerResults ELSE {"none"}) :
       \E db2 \in (IF dbRes = "none" THEN {dock.db}
                    ELSE DockerEffect(dock.db, "start", dbRes)) :
       \E app2 \in (IF appRes = "none" THEN {dock.app}
                     ELSE DockerEffect(dock.app, "start", appRes)) :
        /\ dock' = [app |-> app2, db |-> db2]
        /\ nc' = [op |-> "start",
                  cmds |-> (IF dbRes = "none" THEN <<>>
                            ELSE << <<"start", NEXTCLOUD_DB_CONTAINER>> >>)
                           \o (IF appRes = "none" THEN <<>>
                               ELSE << <<"start", NEXTCLOUD_CONTAINER>> >>),
                  appSeen |-> appSeen, dbSeen |-> dbSeen, dbRes |-> dbRes,
                  code |-> CASE appSeen -> 400
                             [] appRes = "rc0" -> 200
                             [] OTHER -> 500,
                  dbBefore |-> dock.db, dbAfter |-> db2]
    /\ UNCHANGED mcVars
    /\ UNCHANGED prVars
    /\ UNCHANGED stVars
    /\ UNCHANGED ctVars
    /\ UNCHANGED pjVars

\* POST /nextcloud/stop, lines 241-264.
nextcloud_stop ==
    /\ \E appSeen \in ContainerSeen(dock.app) :
       \E appRes \in (IF appSeen THEN DockerResults ELSE {"none"}) :
       \E app2 \in (IF appRes = "none" THEN {dock.app}
                     ELSE DockerEffect(dock.app, "stop", appRes)) :
        /\ dock' = [dock EXCEPT !.app = app2]
        /\ nc' = [op |-> "stop",
                  cmds |-> IF appRes = "none" THEN <<>>
                           ELSE << <<"stop", NEXTCLOUD_CONTAINER>> >>,
                  appSeen |-> appSeen, dbSeen |-> FALSE, dbRes |-> "none",
                  code |-> CASE ~appSeen -> 400
                             [] appRes = "rc0" -> 200
                             [] OTHER -> 500,
                  dbBefore |-> dock.db, dbAfter |-> dock.db]
    /\ UNCHANGED mcVars
    /\ UNCHANGED prVars
    /\ UNCHANGED stVars
    /\ UNCHANGED ctVars
    /\ UNCHANGED pjVars

\* POST /nextcloud/restart, lines 266-285: the database is restarted when it
\* is seen running (its return code is not looked at), then the application.
nextcloud_restart ==
    /\ \E dbSeen \in ContainerSeen(dock.db) :
       \E dbRes \in (IF dbSeen THEN DockerResults ELSE {"none"}) :
       \E appRes \in (IF dbRes = "raise" THEN {"none"} ELSE DockerResults) :
       \E db2 \in (IF dbRes = "none" THEN {dock.db}
                    ELSE DockerEffect(dock.db, "restart", dbRes)) :
       \E app2 \in (IF appRes = "none" THEN {dock.app}
                     ELSE DockerEffect(dock.app, "restart", appRes)) :
        /\ dock' = [app |-> app2, db |-> db2]
        /\ nc' = [op |-> "restart",
                  cmds |-> (IF dbRes = "none" THEN <<>>
                            ELSE << <<"restart", NEXTCLOUD_DB_CONTAINER>> >>)
                           \o (IF appRes = "none" THEN <<>>
                               ELSE << <<"restart", NEXTCLOUD_CONTAINER>> >>),
                  appSeen |-> FALSE, dbSeen |-> dbSeen, dbRes |-> dbRes,
                  code |-> IF appRes = "rc0" THEN 200 ELSE 500,
                  dbBefore |-> dock.db, dbAfter |-> db2]
    /\ UNCHANGED mcVars
    /\ UNCHANGED prVars
    /\ UNCHANGED stVars
    /\ UNCHANGED ctVars
    /\ UNCHANGED pjVars

\* A container is started, stopped or dies outside the dashboard.
DockerChange ==
    /\ \E d \in [app : BOOLEAN, db : BOOLEAN] : d # dock /\ dock' = d
    /\ nc' = nc
    /\ UNCHANGED mcVars
    /\ UNCHANGED prVars
    /\ UNCHANGED stVars
    /\ UNCHANGED ctVars
    /\ UNCHANGED pjVars

ServersNext ==
    \/ nextcloud_start
    \/ nextcloud_stop
    \/ nextcloud_restart
    \/ DockerChange

ServersInit ==
    /\ dock \in [app : BOOLEAN, db : BOOLEAN]
    /\ nc = NoRequest

\* The containers at rest, for the other specifications.
ServersQuiet ==
    /\ dock = [app |-> FALSE, db |-> FALSE]
    /\ nc = NoRequest

(***************************************************************************)
(*                          backend/api/projects.py                        *)
(***************************************************************************)

\* Request threads of the server (app.run serves each request in a thread).
RequestThreads == 1..MaxThreads

\* Names a create request may carry; "" is a missing or blank name.
ProjectNames == {"Demo", "demo", "lab", ""}

\* create_project(), line 111: secure_filename(name.lower().replace(' ', '_'))
BaseId(name) == IF name \in {"Demo", "demo"} THEN "demo" ELSE name

\* Project IDs: <<base, 0>> is base, <<base, k>> is base_k.
ProjectIds == {"demo", "lab"} \X (0..MaxCreates)

\* No directory for an ID; info is the number of the request that wrote
\* project.json, 0 when there is no project.json.
NoDir == [dir |-> FALSE, info |-> 0]

\* A request thread with no create request.
NoCreate == [pc |-> "idle", id |-> <<"", 0>>, n |-> 0, code |-> 0]

\* create_project(), lines 113-118: the first of base, base_1, base_2, ...
\* for which os.path.exists(get_project_dir(project_id)) is false.
FreeId(base) ==
    LET k == CHOOSE i \in 0..MaxCreates :
                 /\ ~project_dirs[<<base, i>>].dir
                 /\ \A j \in 0..(i - 1) : project_dirs[<<base, j>>].dir
    IN  <<base, k>>

\* create_project(), lines 100-118: the name check and the choice of the ID.
create_project(t) ==
    /\ creq[t].pc = "idle"
    /\ made < MaxCreates
    /\ \E name \in ProjectNames :
        IF name = ""
          THEN /\ creq' = [creq EXCEPT ![t] = [NoCreate EXCEPT !.code = 400]]
               /\ made' = made
          ELSE /\ creq' = [creq EXCEPT ![t] = [pc |-> "save",
                                               id |-> FreeId(BaseId(name)),
                                               n |-> made + 1, code |-> 0]]
               /\ made' = made + 1
    /\ UNCHANGED <<project_dirs, yielded, clobbered>>
    /\ UNCHANGED mcVars
    /\ UNCHANGED prVars
    /\ UNCHANGED stVars
    /\ UNCHANGED ctVars
    /\ UNCHANGED svVars

\* create_project(), lines 120-137, with save_project_info(), lines 44-55:
\* os.makedirs(project_dir, exist_ok=True), open(info_path, 'w'), json.dump.
\*   "saved"    project.json is written: 201 with the project info
\*   "nowrite"  the directory is there but open or dump raised: 500
\*   "nodir"    makedirs raised: 500
save_project_info(t) ==
    /\ creq[t].pc = "save"
    /\ \E how \in {"saved", "nowrite", "nodir"} :
        LET id == creq[t].id IN
        /\ project_dirs' =
              CASE how = "saved" ->
                     [project_dirs EXCEPT ![id] = [dir |-> TRUE,
                                                   info |-> creq[t].n]]
                [] how = "nowrite" ->
                     [project_dirs EXCEPT ![id].dir = TRUE]
                [] OTHER -> project_dirs
        /\ yielded' = IF how = "saved" THEN yielded \cup {<<creq[t].n, id>>}
                                        ELSE yielded
        /\ clobbered' = (clobbered \/ (how = "saved" /\ project_dirs[id].dir))
        /\ creq' = [creq EXCEPT ![t] =
                       [NoCreate EXCEPT !.code = IF how = "saved" THEN 201
                                                                  ELSE 500]]
    /\ made' = made
    /\ UNCHANGED mcVars
    /\ UNCHANGED prVars
    /\ UNCHANGED stVars
    /\ UNCHANGED ctVars
    /\ UNCHANGED svVars

ProjectsNext ==
    \E t \in RequestThreads :
        \/ create_project(t)
        \/ save_project_info(t)

ProjectsInit ==
    /\ project_dirs = [id \in ProjectIds |-> NoDir]
    /\ creq = [t \in RequestThreads |-> NoCreate]
    /\ made = 0
    /\ yielded = {}
    /\ clobbered = FALSE

(***************************************************************************)
(*                              Specifications                             *)
(***************************************************************************)

\* The printer side at rest, for the lifecycle specification.
PrQuiet ==
    /\ cfg = "none"
    /\ now = 0
    /\ printer_cache = InitialCache
    /\ mqtt_client = FALSE
    /\ mqtt_connected = FALSE
    /\ merged = NoMerge
    /\ mqtt_loops = 0
    /\ mqtt_up = 0
    /\ lastRead = NoRead
    /\ wr = NoWrite
    /\ rd = NoResponse

\* The game-server side at rest, for the printer specification.
MCQuiet ==
    /\ world = [svc |-> FALSE, screen |-> FALSE, java |-> FALSE]
    /\ pc = "idle"
    /\ caller = "none"
    /\ acts = <<>>
    /\ raised = {}
    /\ stage = [stop |-> 0, start |-> 0]
    /\ lastDet = NoDet
    /\ verify = "none"
    /\ stopRet = NoRet
    /\ startRet = NoRet
    /\ resp = "none"
    /\ errmsg = NoText
    /\ prevStop = "none"
    /\ sameWorld = 0

\* The other modules at rest.
AuxQuiet == SettingsInit /\ ControlInit /\ ServersQuiet /\ ProjectsInit

MCStart == MCInit /\ PrQuiet /\ AuxQuiet
PrStart == PrInit /\ MCQuiet /\ AuxQuiet

SpecMC == MCStart /\ [][MCNext]_vars

\* The steps a request handler takes once it was called.  Each is one external
\* command run with a timeout (5 or 10 s), a sleep of 2 or 3 s, or a
\* detection, so a handler that can take its next step does take it.
HandlerStep ==
    \/ StopDetect \/ StopSystemctl \/ StopRcon \/ StopRconVerify
    \/ StopScreen \/ StopScreenVerify \/ StopKill
    \/ StartDetect \/ StartSystemctl \/ StartScreen
    \/ RestartDetect \/ RestartSleep

\* The requests and their handlers alone.  What the external tools do and
\* answer is chosen anew in every handler step (StopEffects, StartEffects,
\* ProbeOutcomes) from every starting state of Worlds.
MCHandlersNext == CallStop \/ CallStart \/ CallRestart \/ HandlerStep

SpecMCFair == MCStart /\ [][MCHandlersNext]_vars /\ WF_vars(HandlerStep)
SpecPrinter == PrStart /\ [][PrNext]_vars
ThreadsStart == ThreadsInit /\ MCQuiet /\ AuxQuiet
SpecThreads == ThreadsStart /\ [][ThreadsNext]_vars
SettingsStart ==
    /\ SettingsInit /\ MCQuiet /\ PrQuiet
    /\ ControlInit /\ ServersQuiet /\ ProjectsInit
SpecSettings == SettingsStart /\ [][SettingsNext]_vars
SpecControl == PrStart /\ [][ControlNext]_vars
ServersStart ==
    /\ ServersInit /\ MCQuiet /\ PrQuiet
    /\ SettingsInit /\ ControlInit /\ ProjectsInit
SpecServers == ServersStart /\ [][ServersNext]_vars
ProjectsStart ==
    /\ ProjectsInit /\ MCQuiet /\ PrQuiet
    /\ SettingsInit /\ ControlInit /\ ServersQuiet
SpecProjects == ProjectsStart /\ [][ProjectsNext]_vars

(***************************************************************************)
(*                     Claims about the game-server lifecycle              *)
(***************************************************************************)

StopActions == {"systemctl_stop", "rcon_stop", "screen_stop", "terminate",
                "kill"}
StartActions == {"systemctl_start", "screen_start"}

\* The actions of the set S that the current request has invoked, in order.
Invoked(S) == SelectSeq(acts, LAMBDA a : a \in S)

\* The place of an action in its escalation chain.
StopStep(a) ==
    CASE a = "systemctl_stop" -> 1
      [] a = "rcon_stop" -> 2
      [] a = "screen_stop" -> 3
      [] OTHER -> 4
StartStep(a) == IF a = "systemctl_start" THEN 1 ELSE 2

\* C1: when stop() has gone through its final step (forced termination) and
\* detection still reports Running as it returns, it does not answer
\* 'stopped' but a failure.
C1_FailedWhenStillRunning ==
    (stopRet.last = "kill" /\ stopRet.running)
        => stopRet.outcome \in {"Failed", "error"}

\* C2: stop() answers 'stopped' only when a detection made after the latest
\* stop action it issued reported Stopped.
C2_SuccessOnlyAfterVerification ==
    stopRet.outcome = "stopped" => verify = "stopped"

\* C3: a restart() whose stop() failed answers with that failure and has
\* invoked no start action.
C3_RestartSurfacesStopFailure ==
    (caller = "restart" /\ resp # "none" /\ stopRet.outcome = "error")
        => (resp = "error" /\ Invoked(StartActions) = <<>>)

\* C4: when the detection at the entry of stop() reports Stopped, stop()
\* returns NotRunning and the request invokes no stop action.
C4_StopWhenStoppedDoesNothing ==
    stopRet.entry = "stopped"
        => /\ stopRet.outcome = "NotRunning"
           /\ Invoked(StopActions) = <<>>
           /\ (caller = "none" => resp = "NotRunning" /\ acts = <<>>)

C4_Witness ==
    /\ caller = "none"
    /\ pc = "idle"
    /\ stopRet.entry = "stopped"
    /\ resp = "NotRunning"
    /\ lastDet.res = FALSE
    /\ lastDet.svc = "neg"

\* C5: when the detection at the entry of start() reports Running, start()
\* returns AlreadyRunning and the request invokes no start action.
C5_StartWhenRunningDoesNothing ==
    startRet.entry = "running"
        => /\ startRet.outcome = "AlreadyRunning"
           /\ Invoked(StartActions) = <<>>
           /\ (caller = "none" => resp = "AlreadyRunning" /\ acts = <<>>)

C5_Witness ==
    /\ caller = "none"
    /\ pc = "idle"
    /\ startRet.entry = "running"
    /\ resp = "AlreadyRunning"
    /\ lastDet.res = TRUE

\* C6: a detection reports Running exactly when at least one of its three
\* probes answers positive, whatever the earlier probes did.
C6_DetectAnyPositive ==
    lastDet # NoDet
        => (lastDet.res <=> "pos" \in {lastDet.svc, lastDet.screen, lastDet.java})

\* C7: when stop() or start() has returned and the external call of one of
\* its steps had raised or timed out, the step after it was entered.
C7_RaisedStepTriesNext ==
    /\ stopRet.outcome # "none"
         => \A a \in raised \cap StopActions :
               StopStep(a) < 4 => stage.stop > StopStep(a)
    /\ startRet.outcome # "none"
         => \A a \in raised \cap StartActions :
               StartStep(a) < 2 => stage.start > StartStep(a)

(***************************************************************************)
(*                     Claims about the printer status cache               *)
(***************************************************************************)

\* The cache fields an input reports, with the value it reports for each.
MqttKeys ==
    { <<"status", "print", "mc_print_stage">>,
      <<"progress", "print", "mc_percent">>,
      <<"jobName", "print", "subtask_name">>,
      <<"eta", "print", "mc_remaining_time">>,
      <<"nozzleTemp", "temperature", "nozzle_temper">>,
      <<"bedTemp", "temperature", "bed_temper">>,
      <<"filament", "ams", "tray_now">> }
HttpKeys ==
    { <<"status", "status">>, <<"progress", "progress">>,
      <<"jobName", "job_name">>, <<"nozzleTemp", "nozzle_temp">>,
      <<"bedTemp", "bed_temp">> }

Reports(m, f) ==
    CASE m.src = "push" ->
           \E k \in MqttKeys :
              k[1] = f /\ k[2] \in DOMAIN m.data /\ k[3] \in DOMAIN m.data[k[2]]
      [] m.src = "poll" ->
           \E k \in HttpKeys : k[1] = f /\ k[2] \in DOMAIN m.data
      [] m.src = "manual" -> f \in ManualFields /\ f \in DOMAIN m.data
      [] OTHER -> FALSE

Reported(m, f) ==
    CASE m.src = "push" ->
           LET k == CHOOSE k \in MqttKeys : k[1] = f
               v == m.data[k[2]][k[3]]
           IN  IF f = "eta" THEN EtaOf(v) ELSE v
      [] m.src = "poll" ->
           LET k == CHOOSE k \in HttpKeys : k[1] = f IN m.data[k[2]]
      [] OTHER -> m.data[f]

\* The mode tag that names a channel.
ModeOf(src) ==
    CASE src = "push" -> "lan"
      [] src = "poll" -> "cloud"
      [] src = "manual" -> "manual"
      [] OTHER -> "unknown"

\* C8: a merge gives every field it reports the reported value and leaves
\* every field it does not report as it was.
C8_MergeIsFieldwiseOverlay ==
    [][merged'.seq # merged.seq
         => \A f \in DataFields :
              printer_cache'[f] = IF Reports(merged', f)
                                    THEN Reported(merged', f)
                                    ELSE printer_cache[f]]_vars

\* C9: every merge sets last_update to the current time, connected to true
\* and mode to its channel, and mode changes in no other step.
C9_ModeNamesLastMergeSource ==
    [][/\ merged'.seq # merged.seq
            => /\ printer_cache'.last_update = now'
               /\ printer_cache'.connected
               /\ printer_cache'.mode = ModeOf(merged'.src)
       /\ printer_cache'.mode # printer_cache.mode
            => merged'.seq # merged.seq]_vars

\* C10: a status read made more than the staleness threshold after the
\* latest merge, and merging nothing itself, answers connected = false and
\* every other field as it was.
C10_StaleReadChangesOnlyConnected ==
    [][(get_status /\ IsStale(printer_cache, now) /\ merged' = merged)
         => /\ ~printer_cache'.connected
            /\ \A f \in DataFields \cup {"mode", "last_update"} :
                  printer_cache'[f] = printer_cache[f]]_vars

\* The status that the GET /status which just ran answered with: the handler
\* returns the cache it leaves.
ReadAnswered == lastRead.code = 200

\* This step is a GET /status: every other step leaves lastRead = NoRead.
ReadStep == lastRead'.code # 0

\* C11: every status a read answers with satisfies: connected = true implies
\* that last_update is set and lies at most StaleSeconds before the time of
\* the read.
C11_ConnectedImpliesFresh ==
    ReadAnswered /\ printer_cache.connected
        => /\ printer_cache.last_update # NoUpdate
           /\ now - printer_cache.last_update <= StaleSeconds

\* A read answers connected = true with data that has aged, within the window.
C11_Witness ==
    /\ ReadAnswered
    /\ printer_cache.connected
    /\ printer_cache.last_update # NoUpdate
    /\ now > printer_cache.last_update
    /\ lastRead.ok = {}

\* The probes of a read that can bring a status: the push connection and the
\* HTTP poll (the reachability test only gates the poll).
StatusProbes == {"push", "http"}

C13_ReadIsNeverTorn == rd.done => rd.out \in rd.snaps

\* C14: at most one push client is pending or running at any time: no client
\* is created and connected while the network loop of an earlier one runs.
C14_OnePushClientAtMost == mqtt_loops <= 1

\* C15: a read that finds the push connection up does nothing to it: it
\* creates no client, makes no connect call (hence no subscription), leaves
\* the client handle and the running clients as they are, and answers with
\* the cached status.
C15_ConnectedReadKeepsConnection ==
    [][ReadStep /\ mqtt_connected =>
         /\ ~lastRead'.created
         /\ lastRead'.tried = {}
         /\ mqtt_client' = mqtt_client
         /\ mqtt_connected'
         /\ mqtt_loops' = mqtt_loops
         /\ mqtt_up' = mqtt_up
         /\ printer_cache' = StaleChecked(printer_cache, now)
         /\ lastRead'.code = 200]_vars

\* A read ran with the push connection up.
C15_Witness ==
    /\ ReadAnswered
    /\ lastRead.push
    /\ mqtt_connected
    /\ cfg = "lan"

\* C16: when every probe of a read fails, the connected flag it answers with
\* depends on the age of the cached data alone: it stays as it was unless the
\* data is older than StaleSeconds, and the mode stays; so a manual override
\* younger than that is still answered as connected, mode manual.
C16_ProbeFailureKeepsConnected ==
    [][ReadStep /\ lastRead'.tried # {}
                  /\ lastRead'.ok \cap StatusProbes = {} =>
         /\ printer_cache'.connected =
               (printer_cache.connected /\ ~IsStale(printer_cache, now))
         /\ printer_cache'.mode = printer_cache.mode]_vars

\* A read whose push connect and poll both failed answered connected = true,
\* mode manual, from an override that had aged within the window.
C16_Witness ==
    /\ ReadAnswered
    /\ StatusProbes \subseteq lastRead.tried
    /\ lastRead.ok \cap StatusProbes = {}
    /\ merged.src = "manual"
    /\ printer_cache.mode = "manual"
    /\ printer_cache.connected
    /\ now > printer_cache.last_update

\* A stop() request of its own returns in this step.
PlainStopReturns == caller = "none" /\ pc \in StopPcs /\ pc' = "idle"

\* C17: of two stop() requests in immediate succession with no outside change
\* between them, the second finds the server not running and invokes nothing
\* when the first answered success; when the first failed, the second, if it
\* acts at all, starts again at the first step of the chain.
C17_SecondStopAfterFirst ==
    [][PlainStopReturns =>
         /\ prevStop = "stopped" =>
              stopRet'.outcome = "NotRunning" /\ acts' = <<>>
         /\ prevStop = "failed" =>
              stopRet'.outcome = "NotRunning"
                 \/ Head(acts') = "systemctl_stop"]_vars

\* C18: start() invokes systemctl start first and the screen launch second;
\* it answers success at the first launch that is accepted, having invoked
\* nothing after it, and answers a failure only after both methods were tried
\* and rejected (a missing jar counts as the screen launch being rejected).
C18_StartTriesMethodsInOrder ==
    LET a == Invoked(StartActions)
    IN  /\ a \in {<<>>, <<"systemctl_start">>,
                  <<"systemctl_start", "screen_start">>}
        /\ startRet.outcome = "starting" =>
              a # <<>> /\ startRet.last = a[Len(a)]
        /\ startRet.outcome \in {"error", "failed"} =>
              a = <<"systemctl_start", "screen_start">>

\* The place of a stop action in the order of the chain.
StopRank(a) ==
    CASE a = "systemctl_stop" -> 1
      [] a = "rcon_stop" -> 2
      [] a = "screen_stop" -> 3
      [] a = "terminate" -> 4
      [] OTHER -> 5

\* C19: within one stop() the stop actions are invoked in chain order, each
\* at most once, and none after a detection that reported Stopped; when the
\* last step (terminate) is the one after which the server is stopped, the
\* answer is success and the action of every step (systemctl stop, RCON
\* stop, screen stop, terminate) has been invoked exactly once, in order.
C19_StopChainInOrder ==
    LET a == Invoked(StopActions)
    IN  /\ \A i, j \in 1..Len(a) : i < j => StopRank(a[i]) < StopRank(a[j])
        /\ verify = "stopped" => pc \notin StopPcs
        /\ (/\ stopRet.last = "kill"
            /\ ~stopRet.running
            /\ \E i \in 1..Len(a) : a[i] = "terminate") =>
              /\ stopRet.outcome = "stopped"
              /\ SelectSeq(a, LAMBDA x : x # "kill") =
                    <<"systemctl_stop", "rcon_stop", "screen_stop", "terminate">>

\* The escalation step an error text lets its reader identify: the command a
\* TimeoutExpired quotes, or the screen launch for the two texts only that
\* step produces.
StepNamedBy(msg) ==
    CASE msg = NoText -> "none"
      [] msg[1] = "Command " -> msg[2]
      [] msg[1] \in {"Failed to start server: ", "Server jar not found: "} ->
            "screen_start"
      [] OTHER -> "none"

\* C20: when a stop or start request ends in a failure after escalation steps
\* were attempted, the error it returns identifies the step that failed last.
C20_FailureNamesLastStep ==
    (resp \in {"error", "failed", "jar_not_found"} /\ acts # <<>>)
        => StepNamedBy(errmsg) =
              IF resp = "jar_not_found" THEN "screen_start"
                                       ELSE acts[Len(acts)]

\* A probe that the detection d consulted raised.
Erred(d) ==
    \/ d.svc = "err"
    \/ d.svc = "neg" /\ d.screen = "err"
    \/ d.svc = "neg" /\ d.screen = "neg" /\ d.java = "err"

\* The handler calls is_server_running() in this step.
DetectionStep == pc \in DetectPcs /\ pc' # pc

C22_RestartStopsThenStarts ==
    [][(caller = "restart" /\ pc # "idle") =>
         /\ (pc \in StopPcs /\ pc' \notin StopPcs) =>
               pc' = "restart_sleep" /\ stopRet'.outcome # "none"
         /\ (pc # "start_detect" /\ pc' = "start_detect") =>
               \/ pc = "restart_sleep" /\ stopRet.outcome # "none"
               \/ pc = "restart_detect" /\ ~lastDet'.res /\ acts = <<>>
         /\ (acts' # acts /\ acts'[Len(acts')] \in StartActions) =>
               /\ pc \in {"start_systemctl", "start_screen"}
               /\ stopRet.outcome # "none" \/ Invoked(StopActions) = <<>>]_vars

\* A restart() has stopped the server, waited, and invoked a start action.
C22_Witness ==
    /\ caller = "restart"
    /\ pc = "idle"
    /\ stopRet.outcome = "stopped"
    /\ Invoked(StopActions) # <<>>
    /\ Invoked(StartActions) # <<>>
    /\ resp = "restarting"

\* C23: a GET /settings that follows a successful POST /settings, with no
\* other POST between them, answers 200 with exactly the object posted.
C23_SettingsRoundTrip ==
    (saved.ok /\ sresp # NoSettings)
        => sresp.code = 200 /\ sresp.body = saved.data

\* A GET answered an object with several members, saved over an earlier one.
C23_Witness ==
    /\ saved.ok
    /\ sresp.code = 200
    /\ DOMAIN saved.data = {"volume", "standbyConfig"}
    /\ saved.data["volume"] = 75
    /\ sresp.body = saved.data

\* The probes that make up the poll.
PollProbes == {"reach", "http"}

\* C24: a read polls (reachability check, then HTTP query) only when the push
\* connection is down after the read has tried to set it up; with the push
\* flag set it polls nothing and answers the cached status; a poll that
\* succeeds is merged, with mode 'cloud', before the read answers.
C24_PollOnlyWithoutPush ==
    [][ReadStep =>
         /\ lastRead'.tried \cap PollProbes # {} => ~mqtt_connected'
         /\ "http" \in lastRead'.tried => "reach" \in lastRead'.ok
         /\ mqtt_connected =>
               /\ lastRead'.tried \cap PollProbes = {}
               /\ printer_cache' = StaleChecked(printer_cache, now)
         /\ "http" \in lastRead'.ok =>
               /\ merged'.src = "poll" /\ merged'.seq # merged.seq
               /\ printer_cache' =
                    [update_printer_status_from_http(
                         StaleChecked(printer_cache, now), merged'.data, now)
                        EXCEPT !.mode = "cloud"]]_vars

\* A read whose push connect failed polled, and answered the merged poll.
C24_Witness ==
    /\ ReadAnswered
    /\ "push" \in lastRead.tried \ lastRead.ok
    /\ PollProbes \subseteq lastRead.ok
    /\ merged.src = "poll"
    /\ printer_cache.mode = "cloud"
    /\ printer_cache.connected
    /\ ~mqtt_connected

StartPcs == {"start_detect", "start_systemctl", "start_screen"}

\* C25: every stop() and every start() that was begun eventually returns an
\* outcome to its caller, whatever the external tools answer, given that each
\* external call returns or times out: the handler leaves the positions of
\* stop() (of start()) with the outcome recorded.
C25_StopAndStartReturn ==
    /\ (pc \in StopPcs) ~> (pc \notin StopPcs /\ stopRet.outcome # "none")
    /\ (pc \in StartPcs) ~> (pc \notin StartPcs /\ startRet.outcome # "none")

\* A stop() that went through every step of the escalation and returned.
C25_Witness ==
    /\ pc = "idle"
    /\ caller = "none"
    /\ stopRet.outcome = "stopped"
    /\ {"systemctl_stop", "rcon_stop", "screen_stop", "terminate"}
          \subseteq {acts[i] : i \in 1..Len(acts)}
    /\ stage.stop = 4

(***************************************************************************)
(*                   Claims about the printer control commands             *)
(***************************************************************************)

\* C26: a control command is published only by a request that found the MQTT
\* channel connected, and it is the command
\* asked for, one of pause, resume, stop; a request that found the channel
\* not connected publishes nothing and its route answers with an error; an
\* action name outside {pause, resume, stop} is never published.
C26_ControlNeedsConnection ==
    /\ ctl.pub # NoCommand =>
          /\ ctl.conn
          /\ ctl.pub = ctl.action
          /\ ctl.action \in ControlActions
    /\ ctl.action # "none" /\ ~ctl.conn =>
          /\ ctl.pub = NoCommand
          /\ ctl.route => ctl.code = 400
    /\ ctl.route /\ ctl.code = 200 => ctl.pub = ctl.action

\* A pause was published over a connected channel, and answered 200.
C26_Witness ==
    /\ ctl.route /\ ctl.action = "pause" /\ ctl.pub = "pause"
    /\ ctl.code = 200 /\ ctl.conn /\ mqtt_connected

(***************************************************************************)
(*                     Claims about the Nextcloud containers               *)
(***************************************************************************)

StartOfApp == <<"start", NEXTCLOUD_CONTAINER>>
StartOfDb == <<"start", NEXTCLOUD_DB_CONTAINER>>
Issued(cmd) == \E i \in 1..Len(nc.cmds) : nc.cmds[i] = cmd

\* C27: nextcloud_start issues the start of the application container only
\* when it found the database container running, or after the database start
\* it issued just before returned success; when the database start fails the
\* request answers with an error and no application start is issued;
\* nextcloud_stop issues a stop of the application container only and leaves
\* the database container as it was.
C27_DatabaseBeforeApp ==
    /\ nc.op = "start" /\ Issued(StartOfApp) =>
          \/ nc.dbSeen /\ nc.dbBefore /\ nc.cmds = <<StartOfApp>>
          \/ nc.dbRes = "rc0" /\ nc.dbAfter /\ nc.cmds = <<StartOfDb, StartOfApp>>
    /\ nc.op = "start" /\ nc.dbRes \in {"rcfail", "raise"} =>
          /\ nc.code = 500
          /\ nc.cmds = <<StartOfDb>>
    /\ nc.op = "stop" =>
          /\ \A i \in 1..Len(nc.cmds) : nc.cmds[i] = <<"stop", NEXTCLOUD_CONTAINER>>
          /\ nc.dbAfter = nc.dbBefore

\* The database was down, its start succeeded, then the application start
\* was issued and succeeded.
C27_Witness ==
    /\ nc.op = "start" /\ ~nc.dbBefore /\ nc.dbRes = "rc0"
    /\ nc.cmds = <<StartOfDb, StartOfApp>> /\ nc.code = 200
    /\ dock.app /\ dock.db

(***************************************************************************)
(*                        Claims about the project store                   *)
(***************************************************************************)

\* C28: create_project yields an ID that no other project has, and never
\* writes into a directory or over a project.json that existed, also when two
\* create requests with the same name run at the same time: no two requests
\* were answered with the same ID and no save found its directory in place.
C28_CreateYieldsFreshId ==
    /\ ~clobbered
    /\ \A y1 \in yielded : \A y2 \in yielded : y1[2] = y2[2] => y1 = y2

(***************************************************************************)
(*                 Claims about disconnects and configuration              *)
(***************************************************************************)

\* This step is on_mqtt_disconnect: no other step takes a connection down.
DisconnectStep == mqtt_up' < mqtt_up

\* C29: a disconnect of the push channel sets the health flag of the push
\* probe to false and changes nothing else: every field of the cached status
\* (connected, mode and last_update among them), the client handle and the
\* configuration stay; so a read that runs with the flag down and finds the
\* cache connected and not older than StaleSeconds still answers connected.
C29_DisconnectKeepsCache ==
    [][/\ DisconnectStep =>
             /\ ~mqtt_connected'
             /\ printer_cache' = printer_cache
             /\ merged' = merged
             /\ mqtt_client' = mqtt_client
             /\ cfg' = cfg
       /\ ReadStep /\ ~mqtt_connected /\ printer_cache.connected
                   /\ ~IsStale(printer_cache, now) =>
             printer_cache'.connected]_vars

\* Data came in over the push channel, every connection went down, and a
\* later read that found the flag down and made no new connection answered
\* connected = true from the cache, which had aged within the window.
C29_Witness ==
    /\ ReadAnswered
    /\ ~lastRead.push
    /\ "push" \notin lastRead.ok
    /\ merged.src = "push"
    /\ mqtt_up = 0
    /\ ~mqtt_connected
    /\ printer_cache.connected
    /\ now > printer_cache.last_update

\* C30: with no printer address configured a read attempts no probe at all
\* (no push client or connection, no reachability check, no poll) and answers
\* the cached status with the staleness rule applied and nothing else; the
\* cache then holds nothing but what manual updates wrote.
C30_NoAddressNoProbe ==
    [][/\ ReadStep /\ cfg = "none" =>
             /\ lastRead'.code = 200
             /\ lastRead'.tried = {}
             /\ ~lastRead'.created
             /\ mqtt_client' = mqtt_client
             /\ mqtt_connected' = mqtt_connected
             /\ mqtt_loops' = mqtt_loops
             /\ merged' = merged
             /\ printer_cache' = StaleChecked(printer_cache, now)
       /\ cfg = "none" =>
             /\ merged'.src \in {"none", "manual"}
             /\ mqtt_loops' = 0]_vars

\* Without an address, a read answered a manual override that had gone
\* stale: not connected, mode manual, no probe tried.
C30_Witness ==
    /\ ReadAnswered
    /\ cfg = "none"
    /\ lastRead.tried = {}
    /\ merged.src = "manual"
    /\ printer_cache.mode = "manual"
    /\ ~printer_cache.connected
    /\ now - printer_cache.last_update > StaleSeconds

====
